---- MODULE Spec2Model ----
(***************************************************************************)
(* A model of nano-clone.c, a small ncurses text editor.                   *)
(*                                                                         *)
(* The editor keeps one global EditorState E (the line array, the cursor,  *)
(* the scroll offsets, the screen size, the file name and the modified     *)
(* flag).  main() initialises it with editor_init and then loops:          *)
(* editor_refresh_screen, getch, editor_process_key.                       *)
(*                                                                         *)
(* Bytes are integers, a line is the sequence of bytes of a C string       *)
(* (without its terminating NUL), and rows and columns are 0-based as in   *)
(* the source: E.lines[r] of the source is E.lines[r + 1] here.            *)
(***************************************************************************)
EXTENDS Integers, Sequences, FiniteSets, TLC

VARIABLES
    E,        \* the global EditorState
    status,   \* the text held by the status message row of the screen
    pc,       \* where main is: "refresh", "getch", "confirm", "exited", "crashed"
    op,       \* the last operation applied: [name, arg, s, env]
    ret,      \* what the last editor_save_file call returned ("none" before any)
    reads     \* how many times getch returned since the last editor_refresh_screen

vars == <<E, status, pc, op, ret, reads>>

(***************************************************************************)
(* Bounds of the model.                                                    *)
(***************************************************************************)
MaxLines == 2      \* Enter and insertLine stop growing the Document here
MaxLen == 2        \* printable keys stop growing a line here
MaxFileLen == 2    \* length in bytes of the file given at startup
MaxScreen == 2     \* the terminal leaves n text rows of n columns, n in 1..MaxScreen

(***************************************************************************)
(* Bytes and key codes.                                                    *)
(***************************************************************************)
NUL == 0
LF == 10
CR == 13
CtrlO == 15
CtrlX == 24
ChA == 97
DEL == 127
KEY_DOWN == 258
KEY_UP == 259
KEY_LEFT == 260
KEY_RIGHT == 261
KEY_BACKSPACE == 263
KEY_BTAB == 353
ERR == -1

NULL == "NULL"

MsgHelp == "HELP: Ctrl+O = Save | Ctrl+X = Exit"
MsgLoadError == "Error opening file."
MsgSaveError == "Error: Cannot open file for writing!"
MsgSaved == "File saved successfully!"
MsgModified == "File modified. Ctrl+O to save, Ctrl+X to exit without saving."

ArgName == "file.txt"
Untitled == "untitled.txt"

(***************************************************************************)
(* C strings.                                                              *)
(***************************************************************************)
\* The C string held by a byte buffer: the bytes before the first NUL.
RECURSIVE CStr(_)
CStr(buf) ==
    IF buf = <<>> \/ Head(buf) = NUL THEN <<>>
    ELSE <<Head(buf)>> \o CStr(Tail(buf))

strlen(s) == Len(CStr(s))

\* (char)c followed by the promotion back to int, for the key codes used here.
ToChar(c) == c % 256

(***************************************************************************)
(* editor_insert_line, editor_delete_line                                  *)
(***************************************************************************)
\* An index past the end clamped to an append.
editor_insert_line_clamp(S, at, s) ==
    IF at < 0 THEN S
    ELSE LET k == IF at > S.numlines THEN S.numlines ELSE at
         IN [S EXCEPT
               !.lines = SubSeq(S.lines, 1, k) \o <<CStr(s)>>
                           \o SubSeq(S.lines, k + 1, S.numlines),
               !.numlines = S.numlines + 1,
               !.modified = 1]

editor_insert_line(S, at, s) ==
    IF at < 0 \/ at > S.numlines THEN S
    ELSE [S EXCEPT
            !.lines = SubSeq(S.lines, 1, at) \o <<CStr(s)>>
                        \o SubSeq(S.lines, at + 1, S.numlines),
            !.numlines = S.numlines + 1,
            !.modified = 1]

\* editor_delete_line without the refill of an emptied Document.
editor_delete_line_no_refill(S, at) ==
    IF at < 0 \/ at >= S.numlines THEN S
    ELSE [S EXCEPT
            !.lines = SubSeq(S.lines, 1, at) \o SubSeq(S.lines, at + 2, S.numlines),
            !.numlines = S.numlines - 1,
            !.modified = 1]

editor_delete_line(S, at) ==
    IF at < 0 \/ at >= S.numlines THEN S
    ELSE LET D == [S EXCEPT
                     !.lines = SubSeq(S.lines, 1, at)
                                 \o SubSeq(S.lines, at + 2, S.numlines),
                     !.numlines = S.numlines - 1,
                     !.modified = 1]
         IN IF D.numlines = 0 THEN editor_insert_line(D, 0, <<>>) ELSE D

(***************************************************************************)
(* editor_status_message                                                   *)
(***************************************************************************)
\* The status row is cleared and msg is printed on it: whatever it held, it
\* now holds msg.
editor_status_message(st, msg) == msg

(***************************************************************************)
(* editor_load_file                                                        *)
(***************************************************************************)
\* What one getline call returns from the unread bytes: the bytes up to and
\* including the first LF, or all of them when there is no LF.
RECURSIVE GetLine(_)
GetLine(bytes) ==
    IF bytes = <<>> THEN <<>>
    ELSE IF Head(bytes) = LF THEN <<LF>>
    ELSE <<Head(bytes)>> \o GetLine(Tail(bytes))

\* The loop stripping a CR LF pair, not only the last byte.
RECURSIVE LoadLoop_strip_both(_, _)
LoadLoop_strip_both(S, bytes) ==
    IF bytes = <<>> THEN S
    ELSE LET line == GetLine(bytes)
             len == Len(line)
             s1 == IF len > 0 /\ (line[len] = LF \/ line[len] = CR)
                   THEN SubSeq(line, 1, len - 1) ELSE line
             s2 == IF Len(s1) > 0 /\ s1[Len(s1)] = CR
                   THEN SubSeq(s1, 1, Len(s1) - 1) ELSE s1
         IN LoadLoop_strip_both(editor_insert_line(S, S.numlines, s2),
                                SubSeq(bytes, len + 1, Len(bytes)))

\* The while loop of editor_load_file over the unread bytes of the stream.
RECURSIVE LoadLoop(_, _)
LoadLoop(S, bytes) ==
    IF bytes = <<>> THEN S
    ELSE LET line == GetLine(bytes)
             len == Len(line)
             stripped == IF len > 0 /\ (line[len] = LF \/ line[len] = CR)
                         THEN [line EXCEPT ![len] = NUL]
                         ELSE line
         IN LoadLoop(editor_insert_line(S, S.numlines, stripped),
                     SubSeq(bytes, len + 1, Len(bytes)))

\* file.fopen is "ok" (with file.bytes the stream), "ENOENT" or "EACCES".
\* The result is the pair of the new EditorState and the new status row.
editor_load_file(S, st, file) ==
    IF file.fopen = "ENOENT" THEN
        [E |-> editor_insert_line(S, 0, <<>>), status |-> st]
    ELSE IF file.fopen # "ok" THEN
        [E |-> editor_insert_line(S, 0, <<>>),
         status |-> editor_status_message(st, MsgLoadError)]
    ELSE LET L == LoadLoop(S, file.bytes)
         IN [E |-> IF L.numlines = 0 THEN editor_insert_line(L, 0, <<>>) ELSE L,
             status |-> st]

(***************************************************************************)
(* editor_init                                                             *)
(***************************************************************************)
\* editor_init resetting the modified flag after the lines are in place.
editor_init_clean(rows, cols, filename, file) ==
    LET Z == [lines |-> <<>>, numlines |-> 0, row |-> 0, col |-> 0,
              topline |-> 0, leftcol |-> 0,
              screenrows |-> rows, screencols |-> cols,
              filename |-> NULL, modified |-> 0]
        R == IF filename # NULL
             THEN editor_load_file([Z EXCEPT !.filename = filename], "", file)
             ELSE [E |-> editor_insert_line(Z, 0, <<>>), status |-> ""]
    IN [E |-> [R.E EXCEPT !.modified = 0],
        status |-> editor_status_message(R.status, MsgHelp)]

\* filename is NULL or a name; file describes what fopen(filename) finds.
editor_init(rows, cols, filename, file) ==
    LET Z == [lines |-> <<>>, numlines |-> 0, row |-> 0, col |-> 0,
              topline |-> 0, leftcol |-> 0,
              screenrows |-> rows, screencols |-> cols,
              filename |-> NULL, modified |-> 0]
        R == IF filename # NULL
             THEN editor_load_file([Z EXCEPT !.filename = filename], "", file)
             ELSE [E |-> editor_insert_line(Z, 0, <<>>), status |-> ""]
    IN [E |-> R.E, status |-> editor_status_message(R.status, MsgHelp)]

(***************************************************************************)
(* editor_save_file                                                        *)
(***************************************************************************)
\* editor_save_file clearing the flag before it knows that the file opened.
editor_save_file_early_clear(S, st, fopenOk) ==
    LET N == [S EXCEPT !.filename = IF @ = NULL THEN Untitled ELSE @,
                       !.modified = 0]
    IN IF ~fopenOk
       THEN [E |-> N, status |-> MsgSaveError, ret |-> -1]
       ELSE [E |-> N, status |-> MsgSaved, ret |-> 0]

\* editor_save_file taking the cursor and the window back to the origin.
editor_save_file_rewind(S, st, fopenOk) ==
    LET N == [S EXCEPT !.filename = IF @ = NULL THEN Untitled ELSE @,
                       !.row = 0, !.col = 0, !.topline = 0, !.leftcol = 0]
    IN IF ~fopenOk
       THEN [E |-> N, status |-> MsgSaveError, ret |-> -1]
       ELSE [E |-> [N EXCEPT !.modified = 0], status |-> MsgSaved, ret |-> 0]

\* fopenOk says whether fopen(E.filename, "w") succeeds.
editor_save_file(S, st, fopenOk) ==
    LET N == IF S.filename = NULL THEN [S EXCEPT !.filename = Untitled] ELSE S
    IN IF ~fopenOk
       THEN [E |-> N, status |-> editor_status_message(st, MsgSaveError),
             ret |-> -1]
       ELSE [E |-> [N EXCEPT !.modified = 0],
             status |-> editor_status_message(st, MsgSaved), ret |-> 0]

\* Lines 165-167: the bytes written to the file, each line followed by LF.
RECURSIVE SavedBytes(_)
SavedBytes(lines) ==
    IF lines = <<>> THEN <<>>
    ELSE Head(lines) \o <<LF>> \o SavedBytes(Tail(lines))

(***************************************************************************)
(* editor_insert_char, editor_delete_char                                  *)
(***************************************************************************)
\* editor_insert_char leaving the cursor before the byte it inserted.
editor_insert_char_no_advance(S, ch) ==
    IF S.row < 0 \/ S.row >= S.numlines THEN S
    ELSE LET line == S.lines[S.row + 1] \o <<NUL>>
             len == strlen(line)
             col == IF S.col > len THEN len ELSE S.col
             newline == SubSeq(line, 1, col) \o <<ch>>
                          \o SubSeq(line, col + 1, len + 1)
         IN [S EXCEPT !.lines[S.row + 1] = CStr(newline),
                      !.col = col,
                      !.modified = 1]

editor_insert_char(S, ch) ==
    IF S.row < 0 \/ S.row >= S.numlines THEN S
    ELSE LET line == S.lines[S.row + 1] \o <<NUL>>
             len == strlen(line)
             c0 == IF S.col < 0 THEN 0 ELSE S.col
             col == IF c0 > len THEN len ELSE c0
             newline == SubSeq(line, 1, col) \o <<ch>>
                          \o SubSeq(line, col + 1, len + 1)
         IN [S EXCEPT !.lines[S.row + 1] = CStr(newline),
                      !.col = col + 1,
                      !.modified = 1]

\* The cursor left at the end of the merged line.
MergeCol_at_end(prev_len, len) == prev_len + len

\* Line 244: the column after the current line (of length len) was merged
\* into the previous one (of length prev_len).
MergeCol(prev_len, len) == prev_len

\* What a read past the end of a heap block may find after the bytes copied.
Garbage == {<<>>, <<ChA>>}

\* The set of outcomes: [E, crash].  With the cursor column beyond the end of
\* the line the copies read and write outside the two buffers: with
\* col = len + 1 the new line is left without its NUL, with col > len + 1 the
\* second memcpy gets a negative length.
editor_delete_char(S) ==
    IF S.row < 0 \/ S.row >= S.numlines THEN {[E |-> S, crash |-> FALSE]}
    ELSE IF S.col = 0 /\ S.row = 0 THEN {[E |-> S, crash |-> FALSE]}
    ELSE LET line == S.lines[S.row + 1] \o <<NUL>>
             len == strlen(line)
         IN IF S.col > 0 THEN
                IF S.col <= len THEN
                    LET newline == SubSeq(line, 1, S.col - 1)
                                     \o SubSeq(line, S.col + 1, len + 1)
                    IN {[E |-> [S EXCEPT !.lines[S.row + 1] = CStr(newline),
                                         !.col = S.col - 1,
                                         !.modified = 1],
                         crash |-> FALSE]}
                ELSE IF S.col = len + 1 THEN
                    {[E |-> [S EXCEPT !.lines[S.row + 1] =
                                          SubSeq(line, 1, len) \o g,
                                      !.col = S.col - 1,
                                      !.modified = 1],
                      crash |-> FALSE] : g \in Garbage}
                ELSE {[E |-> S, crash |-> TRUE]}
            ELSE
                LET prev == S.lines[S.row] \o <<NUL>>
                    prev_len == strlen(prev)
                    newline == CStr(prev) \o CStr(line)
                IN {[E |-> [S EXCEPT
                              !.lines = SubSeq(S.lines, 1, S.row - 1)
                                          \o <<newline>>
                                          \o SubSeq(S.lines, S.row + 2, S.numlines),
                              !.numlines = S.numlines - 1,
                              !.row = S.row - 1,
                              !.col = MergeCol(prev_len, len),
                              !.modified = 1],
                     crash |-> FALSE]}

(***************************************************************************)
(* editor_move_cursor                                                      *)
(***************************************************************************)
\* What strlen(E.lines[r]) may return: the length of line r when r indexes
\* the line array, any length when it does not (the read is outside the array
\* or of a freed line).
StrlenAt(S, r) ==
    IF 0 <= r /\ r < S.numlines THEN {Len(S.lines[r + 1])} ELSE 0..MaxLen

\* Whether reading E.lines[r] may fault.
MayFault(S, r) == ~(0 <= r /\ r < S.numlines)

\* What the read of strlen(E.lines[r]) may do: return a length, or fault.
StrlenReads(S, r) ==
    {[len |-> n, crash |-> FALSE] : n \in StrlenAt(S, r)}
        \cup (IF MayFault(S, r) THEN {[len |-> 0, crash |-> TRUE]} ELSE {})

\* The vertical moves without the clamp.
ClampedCol_none(col, n) == col

\* Lines 253-254 and 258-259: the column after a vertical move to a line of
\* length n.
ClampedCol(col, n) == IF col > n THEN n ELSE col

\* The set of outcomes: [E, crash].
editor_move_cursor(S, key) ==
    IF key = KEY_UP THEN
        LET U == IF S.row > 0 THEN [S EXCEPT !.row = S.row - 1] ELSE S
        IN {[E |-> IF x.crash THEN U
                   ELSE [U EXCEPT !.col = ClampedCol(U.col, x.len)],
             crash |-> x.crash] : x \in StrlenReads(U, U.row)}
    ELSE IF key = KEY_DOWN THEN
        LET D == IF S.row < S.numlines - 1 THEN [S EXCEPT !.row = S.row + 1] ELSE S
        IN {[E |-> IF x.crash THEN D
                   ELSE [D EXCEPT !.col = ClampedCol(D.col, x.len)],
             crash |-> x.crash] : x \in StrlenReads(D, D.row)}
    ELSE IF key = KEY_LEFT THEN
        IF S.col > 0 THEN {[E |-> [S EXCEPT !.col = S.col - 1], crash |-> FALSE]}
        ELSE IF S.row > 0 THEN
            LET U == [S EXCEPT !.row = S.row - 1]
            IN {[E |-> IF x.crash THEN U ELSE [U EXCEPT !.col = x.len],
                 crash |-> x.crash] : x \in StrlenReads(U, U.row)}
        ELSE {[E |-> S, crash |-> FALSE]}
    ELSE IF key = KEY_RIGHT THEN
        {[E |-> IF x.crash THEN S
                ELSE IF S.col < x.len THEN [S EXCEPT !.col = S.col + 1]
                ELSE IF S.row < S.numlines - 1
                     THEN [S EXCEPT !.row = S.row + 1, !.col = 0]
                     ELSE S,
          crash |-> x.crash] : x \in StrlenReads(S, S.row)}
    ELSE {[E |-> S, crash |-> FALSE]}

(***************************************************************************)
(* editor_process_key                                                      *)
(***************************************************************************)
\* What isprint(c) may return.  It is defined for EOF and the unsigned char
\* values; for any other int the behaviour is undefined.
isprint(c) ==
    IF c = ERR \/ (0 <= c /\ c <= 255) THEN {32 <= c /\ c <= 126}
    ELSE {TRUE, FALSE}

\* Enter splitting the current line at the cursor.
InsertNewline_split(S) ==
    LET line == S.lines[S.row + 1]
        B == [S EXCEPT !.lines[S.row + 1] = SubSeq(line, 1, S.col)]
        A == editor_insert_line(B, S.row + 1, SubSeq(line, S.col + 1, Len(line)))
    IN [A EXCEPT !.row = S.row + 1, !.col = 0]

\* Enter moving down without the clamp of the column.
InsertNewline_no_clamp(S) ==
    IF S.row < S.numlines - 1 THEN [S EXCEPT !.row = S.row + 1]
    ELSE LET A == editor_insert_line(S, S.numlines, <<>>)
         IN [A EXCEPT !.row = S.row + 1, !.col = 0]

\* The Enter case of the switch.
InsertNewline(S) ==
    IF S.row < S.numlines - 1 THEN
        LET D == [S EXCEPT !.row = S.row + 1]
            line_len == Len(D.lines[D.row + 1])
        IN IF D.col > line_len THEN [D EXCEPT !.col = line_len] ELSE D
    ELSE
        LET A == editor_insert_line(S, S.numlines, <<>>)
        IN [A EXCEPT !.row = S.row + 1, !.col = 0]

\* An outcome of a key handler: the new E and status row, where main goes on,
\* and what editor_save_file returned (unchanged when it was not called).
Goes(S, st, where, r) == [E |-> S, status |-> st, pc |-> where, ret |-> r]

Lift(set, st, r) ==
    {Goes(o.E, st, IF o.crash THEN "crashed" ELSE "refresh", r) : o \in set}

\* The exit branch leaving without asking.
ExitKey_no_prompt(S, st, r) == {Goes(S, st, "exited", r)}

\* Lines 282-291, up to the second getch: Ctrl+X.
ExitKey(S, st, r) ==
    IF S.modified # 0
    THEN {Goes(S, editor_status_message(st, MsgModified), "confirm", r)}
    ELSE {Goes(S, st, "exited", r)}

\* The set of outcomes of editor_process_key(c) up to its return, its exit or
\* its second getch.  fopenOk says whether an fopen for writing succeeds.
editor_process_key(S, st, r, c, fopenOk) ==
    IF c = CtrlX THEN ExitKey(S, st, r)
    ELSE IF c = CtrlO THEN
        LET V == editor_save_file(S, st, fopenOk)
        IN {Goes(V.E, V.status, "refresh", V.ret)}
    ELSE IF c \in {KEY_UP, KEY_DOWN, KEY_LEFT, KEY_RIGHT} THEN
        Lift(editor_move_cursor(S, c), st, r)
    ELSE IF c \in {KEY_BACKSPACE, DEL} THEN
        Lift(editor_delete_char(S), st, r)
    ELSE IF c \in {CR, LF} THEN
        {Goes(InsertNewline(S), st, "refresh", r)}
    ELSE
        {Goes(IF p THEN editor_insert_char(S, ToChar(c)) ELSE S, st, "refresh", r)
            : p \in isprint(c)}

\* The prompt asked again after a key other than Ctrl+X.
ConfirmExit_ask_again(c2) == IF c2 # CtrlX THEN "confirm" ELSE "exited"

\* The second getch taking any key for a confirmation.
ConfirmExit_any_key(c2) == "exited"

\* editor_process_key after its second getch returned c2.
ConfirmExit(c2) == IF c2 # CtrlX THEN "refresh" ELSE "exited"

(***************************************************************************)
(* editor_scroll, editor_refresh_screen                                    *)
(***************************************************************************)
\* editor_scroll with the window ending one cell before the cursor.
editor_scroll_off_by_one(S) ==
    LET T1 == IF S.row < S.topline THEN [S EXCEPT !.topline = S.row] ELSE S
        T2 == IF T1.row >= T1.topline + T1.screenrows
              THEN [T1 EXCEPT !.topline = T1.row - T1.screenrows] ELSE T1
        L1 == IF T2.col < T2.leftcol THEN [T2 EXCEPT !.leftcol = T2.col] ELSE T2
        L2 == IF L1.col >= L1.leftcol + L1.screencols
              THEN [L1 EXCEPT !.leftcol = L1.col - L1.screencols] ELSE L1
    IN L2

\* editor_scroll putting the cursor in the first cell of the window whenever
\* it has to move the window.
editor_scroll_snap(S) ==
    LET T == IF S.row < S.topline \/ S.row >= S.topline + S.screenrows
             THEN [S EXCEPT !.topline = S.row] ELSE S
    IN IF T.col < T.leftcol \/ T.col >= T.leftcol + T.screencols
       THEN [T EXCEPT !.leftcol = T.col] ELSE T

editor_scroll(S) ==
    LET T1 == IF S.row < S.topline THEN [S EXCEPT !.topline = S.row] ELSE S
        T2 == IF T1.row >= T1.topline + T1.screenrows
              THEN [T1 EXCEPT !.topline = T1.row - T1.screenrows + 1] ELSE T1
        L1 == IF T2.col < T2.leftcol THEN [T2 EXCEPT !.leftcol = T2.col] ELSE T2
        L2 == IF L1.col >= L1.leftcol + L1.screencols
              THEN [L1 EXCEPT !.leftcol = L1.col - L1.screencols + 1] ELSE L1
    IN L2

\* Where editor_refresh_screen puts the terminal cursor: <<y, x>>.
CursorScreenPosition(S) == <<S.row - S.topline, S.col - S.leftcol>>

(***************************************************************************)
(* The program: main                                                       *)
(***************************************************************************)
RECURSIVE SeqsUpTo(_, _)
SeqsUpTo(S, n) ==
    IF n = 0 THEN {<<>>}
    ELSE LET P == SeqsUpTo(S, n - 1)
         IN P \cup {Append(s, b) : s \in P, b \in S}

FileBytes == {ChA, LF}

\* What fopen(argv[1], "r") may find.
Files ==
    {[fopen |-> e, bytes |-> <<>>] : e \in {"ENOENT", "EACCES"}}
        \cup {[fopen |-> "ok", bytes |-> b] : b \in SeqsUpTo(FileBytes, MaxFileLen)}

\* The keys getch may return here.
Keys == {KEY_UP, KEY_DOWN, KEY_LEFT, KEY_RIGHT, KEY_BACKSPACE, CR,
         CtrlX, CtrlO, ChA, KEY_BTAB, ERR}

\* The last operation: its name, its integer argument, its text argument and
\* what the file system answered to it.
Op(name, arg, s, env) == [name |-> name, arg |-> arg, s |-> s, env |-> env]

\* Between two operations: the locals c and c2 and the value returned by
\* editor_save_file do not outlive the loop body.
NoOp == Op("none", 0, <<>>, "")

\* The model stops growing the Document at its bounds.
Fits(S) ==
    /\ S.numlines <= MaxLines
    /\ S.row <= MaxLines
    /\ \A i \in 1..Len(S.lines) : Len(S.lines[i]) <= MaxLen

Init ==
    \E n \in 1..MaxScreen :
        \/ /\ LET I == editor_init(n, n, NULL, [fopen |-> "", bytes |-> <<>>])
              IN E = I.E /\ status = I.status
           /\ op = Op("init", 0, <<>>, "")
           /\ pc = "refresh"
           /\ ret = "none"
           /\ reads = 0
        \/ \E file \in Files :
            /\ LET I == editor_init(n, n, ArgName, file)
               IN E = I.E /\ status = I.status
            /\ op = Op("init", 1, file.bytes, file.fopen)
            /\ pc = "refresh"
            /\ ret = "none"
            /\ reads = 0

\* main, line 66: editor_refresh_screen.
Refresh ==
    /\ pc = "refresh"
    /\ E' = editor_scroll(E)
    /\ pc' = "getch"
    /\ op' = NoOp
    /\ ret' = "none"
    /\ reads' = 0
    /\ UNCHANGED status

\* main, lines 67-68: getch returns c and editor_process_key(c) runs up to
\* its return, its exit or its own getch.
Key(c) ==
    /\ pc = "getch"
    /\ \E fopenOk \in (IF c = CtrlO THEN BOOLEAN ELSE {TRUE}) :
        /\ \E o \in editor_process_key(E, status, ret, c, fopenOk) :
            /\ Fits(o.E)
            /\ E' = o.E
            /\ status' = o.status
            /\ pc' = o.pc
            /\ ret' = o.ret
        /\ op' = Op("key", c, <<>>,
                    IF c # CtrlO THEN "" ELSE IF fopenOk THEN "ok" ELSE "EACCES")
    /\ reads' = reads + 1

\* editor_process_key, lines 286-291: the second getch returns c2.
Confirm(c2) ==
    /\ pc = "confirm"
    /\ pc' = ConfirmExit(c2)
    /\ op' = Op("confirm", c2, <<>>, "")
    /\ reads' = reads + 1
    /\ UNCHANGED <<E, status, ret>>

Next ==
    \/ Refresh
    \/ \E c \in Keys : Key(c)
    \/ \E c2 \in Keys : Confirm(c2)

Spec == Init /\ [][Next]_vars

(***************************************************************************)
(* The Line Buffer operations called directly, between two key events.     *)
(***************************************************************************)
Texts == {<<>>, <<ChA>>}

CallInsertLine(at, s) ==
    /\ pc = "getch"
    /\ Fits(editor_insert_line(E, at, s))
    /\ E' = editor_insert_line(E, at, s)
    /\ pc' = "refresh"
    /\ op' = Op("insertLine", at, s, "")
    /\ UNCHANGED <<status, ret, reads>>

CallDeleteLine(at) ==
    /\ pc = "getch"
    /\ E' = editor_delete_line(E, at)
    /\ pc' = "refresh"
    /\ op' = Op("deleteLine", at, <<>>, "")
    /\ UNCHANGED <<status, ret, reads>>

\* The bytes given to editor_insert_char called directly.
ApiBytes == {NUL, ChA}

CallInsertChar(ch) ==
    /\ pc = "getch"
    /\ Fits(editor_insert_char(E, ch))
    /\ E' = editor_insert_char(E, ch)
    /\ pc' = "refresh"
    /\ op' = Op("insertChar", ch, <<>>, "")
    /\ UNCHANGED <<status, ret, reads>>

\* editor_insert_char(ch) immediately followed by editor_delete_char().
CallInsertThenDelete(ch) ==
    /\ pc = "getch"
    /\ \E o \in editor_delete_char(editor_insert_char(E, ch)) :
        /\ Fits(o.E)
        /\ E' = o.E
        /\ pc' = IF o.crash THEN "crashed" ELSE "refresh"
    /\ op' = Op("insertChar;deleteChar", ch, <<>>, "")
    /\ UNCHANGED <<status, ret, reads>>

NextAPI ==
    \/ Next
    \/ \E at \in -1..(E.numlines + 1), s \in Texts : CallInsertLine(at, s)
    \/ \E at \in -1..E.numlines : CallDeleteLine(at)
    \/ \E ch \in ApiBytes : CallInsertChar(ch)
    \/ \E ch \in ApiBytes : CallInsertThenDelete(ch)

SpecAPI == Init /\ [][NextAPI]_vars

(***************************************************************************)
(* The file written by a save read back by a later start of the editor.    *)
(***************************************************************************)
\* The bytes of the lines of the Documents saved: a printable byte and CR,
\* which a line keeps when the file it was loaded from ended it with CR LF.
DocBytes == {ChA, CR}

Docs ==
    UNION {[1..k -> SeqsUpTo(DocBytes, MaxLen)] : k \in 1..MaxLines}

\* The editor holding the lines of doc, the cursor at the origin, after an
\* editor_refresh_screen.
InitFile ==
    \E n \in 1..MaxScreen, doc \in Docs :
        /\ LET I == editor_init(n, n, ArgName, [fopen |-> "ENOENT", bytes |-> <<>>])
           IN /\ E = editor_scroll([I.E EXCEPT !.lines = doc, !.numlines = Len(doc)])
              /\ status = I.status
        /\ pc = "getch"
        /\ op = NoOp
        /\ ret = "none"
        /\ reads = 0

\* editor_save_file, its fopen succeeding; op.s holds the bytes written.
FileSave ==
    /\ pc = "getch"
    /\ LET V == editor_save_file(E, status, TRUE)
       IN E' = V.E /\ status' = V.status /\ ret' = V.ret
    /\ op' = Op("save", CtrlO, SavedBytes(E.lines), "ok")
    /\ pc' = "saved"
    /\ UNCHANGED reads

\* A later editor_init on the file just written.
FileLoad ==
    /\ pc = "saved"
    /\ LET I == editor_init(E.screenrows, E.screencols, E.filename,
                            [fopen |-> "ok", bytes |-> op.s])
       IN E' = I.E /\ status' = I.status
    /\ op' = Op("load", 0, op.s, "ok")
    /\ pc' = "loaded"
    /\ ret' = "none"
    /\ UNCHANGED reads

NextFile == FileSave \/ FileLoad

SpecFile == InitFile /\ [][NextFile]_vars

(***************************************************************************)
(* Properties                                                              *)
(***************************************************************************)
CursorValid(S) ==
    /\ 0 <= S.row /\ S.row <= S.numlines - 1
    /\ 0 <= S.col /\ S.col <= Len(S.lines[S.row + 1])

Arrows == {KEY_UP, KEY_DOWN, KEY_LEFT, KEY_RIGHT}

IsKey(o, c) == o.name = "key" /\ o.arg = c

\* C1: in every state after editor_init, whatever the startup case and
\* whatever keys and insertLine/deleteLine calls followed, the Document has at
\* least one line (and numlines counts the lines); deleteLine(0) on a
\* one-line Document leaves exactly one empty line.
C1_AtLeastOneLine ==
    /\ [](E.numlines >= 1 /\ Len(E.lines) = E.numlines)
    /\ [][(pc = "getch" /\ op'.name = "deleteLine" /\ op'.arg = 0
             /\ E.numlines = 1)
            => (E'.numlines = 1 /\ E'.lines = << <<>> >>)]_vars

C1_Witness ==
    /\ op.name = "deleteLine" /\ op.arg = 0
    /\ E.numlines = 1 /\ E.lines = << <<>> >> /\ E.col > 0

\* C2: from a state with a valid cursor, every single operation leaves the
\* cursor valid: 0 <= row <= numlines - 1 and 0 <= col <= len(lines[row]).
C2_CursorValidAfterEveryOp ==
    [][CursorValid(E) => CursorValid(E')]_vars

\* What key k may make of S: T has a valid cursor, and at the four borders T
\* is what the Line Buffer contract says.
C3_Move(S, k, T) ==
    /\ CursorValid(T)
    /\ (k = KEY_UP /\ S.row = 0) => T = S
    /\ (k = KEY_DOWN /\ S.row = S.numlines - 1) => T = S
    /\ (k = KEY_LEFT /\ S.col = 0 /\ S.row > 0)
         => (T.row = S.row - 1 /\ T.col = Len(S.lines[S.row]))
    /\ (k = KEY_RIGHT /\ S.col = Len(S.lines[S.row + 1]) /\ S.row < S.numlines - 1)
         => (T.row = S.row + 1 /\ T.col = 0)

\* C3: a cursor move from a valid cursor gives a valid cursor; up from row 0
\* and down from the last row change nothing; left at column 0 goes to the
\* end of the previous line, right at the end of a line goes to column 0 of
\* the next line.
C3_MoveCursorInBounds ==
    [][(pc = "getch" /\ op'.name = "key" /\ op'.arg \in Arrows /\ CursorValid(E))
         => (pc' = "refresh" /\ C3_Move(E, op'.arg, E'))]_vars

\* A left move that wrapped to the end of a non-empty previous line.
C3_Witness ==
    /\ IsKey(op, KEY_LEFT)
    /\ E.row < E.numlines - 1
    /\ E.col > 0 /\ E.col = Len(E.lines[E.row + 1])

\* C4: on a modified Document the exit-trigger changes nothing and waits for
\* one more event; any event but the exit-trigger is discarded: the session
\* stays open and the Document, the cursor and the modified flag are as they
\* were.
C4_CancelledExitChangesNothing ==
    [][/\ (pc = "getch" /\ IsKey(op', CtrlX) /\ E.modified # 0)
            => (pc' = "confirm" /\ E' = E)
       /\ (pc = "confirm" /\ op'.arg # CtrlX)
            => (pc' = "refresh" /\ E' = E)]_vars

\* The save-trigger given as the second event was discarded.
C4_Witness ==
    /\ pc = "refresh" /\ op.name = "confirm" /\ op.arg = CtrlO
    /\ E.modified = 1 /\ ret = "none"

\* C5: the session ends exactly by an exit-trigger on an unmodified Document
\* or by an exit-trigger that follows the exit-trigger on a modified one;
\* nothing else ends it.
C5_ExitOnlyWhenConfirmed ==
    /\ [](pc # "crashed")
    /\ [][/\ pc' = "exited" <=>
                \/ (pc = "getch" /\ IsKey(op', CtrlX) /\ E.modified = 0)
                \/ (pc = "confirm" /\ op'.arg = CtrlX)
          /\ pc' = "confirm" <=>
                (pc = "getch" /\ IsKey(op', CtrlX) /\ E.modified # 0)]_vars

C5_Witness ==
    pc = "exited" /\ op.name = "confirm" /\ op.arg = CtrlX /\ E.modified = 1

\* C6: every operation that changes the lines sets the modified flag; the
\* flag goes from set to clear only in a save whose fopen succeeded; a save
\* whose fopen failed returns -1 and leaves the flag, a save whose fopen
\* succeeded returns 0 and clears it.
C6_ModifiedFlag ==
    [][/\ (E'.lines # E.lines \/ E'.numlines # E.numlines) => E'.modified = 1
       /\ (E.modified # 0 /\ E'.modified = 0)
            => (pc = "getch" /\ IsKey(op', CtrlO) /\ op'.env = "ok" /\ ret' = 0)
       /\ (pc = "getch" /\ IsKey(op', CtrlO))
            => IF op'.env = "ok"
               THEN ret' = 0 /\ E'.modified = 0
               ELSE ret' = -1 /\ E'.modified = E.modified]_vars

C6_Witness ==
    IsKey(op, CtrlO) /\ op.env = "ok" /\ ret = 0 /\ E.modified = 0

\* C7: a save whose fopen failed leaves the whole EditorState (lines, cursor,
\* offsets, modified flag, filename) as it was; only the status row differs.
C7_FailedSaveKeepsState ==
    [][(pc = "getch" /\ IsKey(op', CtrlO) /\ op'.env # "ok") => E' = E]_vars

\* C8: started on a file that exists and cannot be opened, the Document is
\* one empty line and the status row holds the load-failure message when
\* editor_init is over.
C8_LoadFailureSurfaced ==
    (op.name = "init" /\ op.env = "EACCES")
        => (E.numlines = 1 /\ E.lines = << <<>> >> /\ status = MsgLoadError)

\* C9: after editor_refresh_screen the cursor is inside the window, and the
\* screen position it was given is inside the screen.
C9_CursorInWindow ==
    pc = "getch" =>
        /\ E.topline <= E.row /\ E.row < E.topline + E.screenrows
        /\ E.leftcol <= E.col /\ E.col < E.leftcol + E.screencols
        /\ CursorScreenPosition(E) \in
              (0..(E.screenrows - 1)) \X (0..(E.screencols - 1))

C9_Witness ==
    pc = "getch" /\ E.topline > 0 /\ E.leftcol > 0

\* The offset nearest to off whose window of that size holds pos.
MinimalOffset(pos, off, size) ==
    IF pos < off THEN pos
    ELSE IF pos >= off + size THEN pos - size + 1
    ELSE off

\* C10: the scroll moves each offset by the least amount that brings the
\* cursor into the window (unchanged when the cursor is inside, the cursor
\* position when it is before, position - size + 1 when it is after), and
\* changes nothing else.
C10_MinimalScroll ==
    [][pc = "refresh" =>
         E' = [E EXCEPT
                 !.topline = MinimalOffset(E.row, E.topline, E.screenrows),
                 !.leftcol = MinimalOffset(E.col, E.leftcol, E.screencols)]]_vars

\* The window was moved right by one column to show the cursor in its last
\* column.
C10_Witness ==
    /\ pc = "getch" /\ E.screencols = 2
    /\ E.leftcol = 1 /\ E.col = 2

\* The steps that call editor_insert_char(ch) with a known byte: the
\* printable key and the direct call.
InsertsChar(o) == o.name = "insertChar" \/ IsKey(o, ChA)

\* T is S with ch spliced into the current line at the cursor column.
Spliced(S, ch, T) ==
    LET line == S.lines[S.row + 1]
    IN /\ T.lines = [S.lines EXCEPT ![S.row + 1] =
                        SubSeq(line, 1, S.col) \o <<ch>>
                            \o SubSeq(line, S.col + 1, Len(line))]
       /\ Len(T.lines[S.row + 1]) = Len(line) + 1
       /\ T.col = S.col + 1
       /\ T.row = S.row
       /\ T.numlines = S.numlines
       /\ T.modified = 1

\* C11: from a valid state, insertChar(ch) for any byte ch gives the current
\* line with ch spliced in at the cursor column (one byte longer), the column
\* one further, the row, numlines and the other lines unchanged, and the
\* modified flag set.
C11_InsertCharSplices ==
    [][(pc = "getch" /\ CursorValid(E) /\ InsertsChar(op'))
         => Spliced(E, op'.arg, E')]_vars

\* C12 as stated: insertChar(ch) followed by deleteChar() restores the line
\* and the column from every valid cursor but (0, 0), where the inserted byte
\* remains.  Stated for the bytes insertChar stores (ch other than NUL).
C12_RoundTripExceptOrigin ==
    [][(pc = "getch" /\ CursorValid(E)
          /\ op'.name = "insertChar;deleteChar" /\ op'.arg # NUL)
         => IF E.row = 0 /\ E.col = 0
            THEN E'.lines[1] = <<op'.arg>> \o E.lines[1] /\ E'.col = 1
            ELSE E'.lines = E.lines /\ E'.col = E.col]_vars

\* C12 amended: insertChar(ch), ch other than NUL, followed by deleteChar()
\* restores the lines and the cursor from every valid cursor, (0, 0)
\* included.
C12_RoundTripEverywhere ==
    [][(pc = "getch" /\ CursorValid(E)
          /\ op'.name = "insertChar;deleteChar" /\ op'.arg # NUL)
         => /\ pc' = "refresh"
            /\ E'.lines = E.lines /\ E'.numlines = E.numlines
            /\ E'.row = E.row /\ E'.col = E.col]_vars

\* The round trip was made at the very first position of a non-empty line.
C12_Witness ==
    /\ op.name = "insertChar;deleteChar" /\ op.arg = ChA /\ pc = "refresh"
    /\ E.row = 0 /\ E.col = 0 /\ E.lines[1] # <<>>

\* The reference backspace: T is S after a backspace at a valid cursor.
Backspace(S, T) ==
    LET line == S.lines[S.row + 1]
    IN IF S.col > 0 THEN
           T = [S EXCEPT !.lines[S.row + 1] =
                             SubSeq(line, 1, S.col - 1)
                                 \o SubSeq(line, S.col + 1, Len(line)),
                         !.col = S.col - 1,
                         !.modified = 1]
       ELSE IF S.row > 0 THEN
           /\ T.numlines = S.numlines - 1
           /\ Len(T.lines) = S.numlines - 1
           /\ \A i \in 1..(S.numlines - 1) :
                T.lines[i] = IF i < S.row THEN S.lines[i]
                             ELSE IF i = S.row THEN S.lines[S.row] \o line
                             ELSE S.lines[i + 1]
           /\ T.row = S.row - 1
           /\ T.col = Len(S.lines[S.row])
           /\ T.modified = 1
           /\ T = [S EXCEPT !.lines = T.lines, !.numlines = T.numlines,
                            !.row = T.row, !.col = T.col, !.modified = 1]
       ELSE T = S

\* C13: from every valid state deleteChar is the reference backspace: with
\* col > 0 it removes the byte before the cursor and decrements col; with
\* col = 0 and row > 0 it replaces line row-1 by its concatenation with line
\* row, removes line row and puts the cursor at (row-1, old length of line
\* row-1); at (0, 0) it changes nothing, the modified flag included.
C13_DeleteCharIsBackspace ==
    [][(pc = "getch" /\ CursorValid(E) /\ IsKey(op', KEY_BACKSPACE))
         => (pc' = "refresh" /\ Backspace(E, E'))]_vars

\* Two one-byte lines were merged: the cursor is between the two bytes.
C13_Witness ==
    /\ IsKey(op, KEY_BACKSPACE)
    /\ E.numlines = 1 /\ E.lines = << <<ChA, ChA>> >>
    /\ E.row = 0 /\ E.col = 1

\* What the contract of insertNewline makes of S at a valid cursor.
Enter(S, T) ==
    IF S.row < S.numlines - 1 THEN
        LET next_len == Len(S.lines[S.row + 2])
        IN T = [S EXCEPT !.row = S.row + 1,
                         !.col = IF S.col < next_len THEN S.col ELSE next_len]
    ELSE T = [S EXCEPT !.lines = Append(S.lines, <<>>),
                       !.numlines = S.numlines + 1,
                       !.row = S.numlines,
                       !.col = 0,
                       !.modified = 1]

\* C14: Enter never splits or alters a line: not on the last line it only
\* moves the cursor to (row+1, min(col, length of line row+1)) and leaves the
\* Document and the modified flag; on the last line it appends one empty
\* line, moves the cursor to (old numlines, 0) and sets the modified flag,
\* whatever the column was.
C14_EnterMovesDownOrAppends ==
    [][(pc = "getch" /\ CursorValid(E) /\ IsKey(op', CR))
         => (pc' = "refresh" /\ Enter(E, E'))]_vars

\* Enter after a successful save set the modified flag again: it appended a
\* line below a non-empty last line.
C14_Witness ==
    /\ IsKey(op, CR) /\ status = MsgSaved /\ E.modified = 1
    /\ E.numlines = 2 /\ E.row = 1 /\ E.col = 0
    /\ E.lines = << <<ChA, ChA>>, <<>> >>

NoNewline(lines) ==
    \A i \in 1..Len(lines) : \A j \in 1..Len(lines[i]) : lines[i][j] # LF

\* C15: for every Document of at least one line whose lines hold no LF
\* (empty lines and lines ending in CR included), loading the bytes written
\* by a save gives the same lines in the same order, and the same numlines.
C15_SaveLoadRoundTrip ==
    [][(pc = "saved" /\ E.numlines >= 1 /\ NoNewline(E.lines))
         => (pc' = "loaded" /\ E'.lines = E.lines /\ E'.numlines = E.numlines
               /\ Len(E'.lines) = E'.numlines)]_vars

\* A line ending in CR and an empty last line came back.
C15_Witness ==
    pc = "loaded" /\ E.lines = << <<ChA, CR>>, <<>> >> /\ E.numlines = 2

RowOutside(S) == S.row < 0 \/ S.row >= S.numlines

\* The request of o is out of bounds in the state S it is issued in.
OutOfBounds(S, o) ==
    \/ o.name = "insertLine" /\ (o.arg < 0 \/ o.arg > S.numlines)
    \/ o.name = "deleteLine" /\ (o.arg < 0 \/ o.arg >= S.numlines)
    \/ (InsertsChar(o) \/ IsKey(o, KEY_BACKSPACE)) /\ RowOutside(S)

\* C16: insertLine(at) with at < 0 or at > numlines, deleteLine(at) with
\* at < 0 or at >= numlines, and insertChar/deleteChar with the cursor row
\* outside [0, numlines-1] change nothing: the lines, numlines, the cursor,
\* the viewport, the modified flag and the status message stay as they were,
\* and the editor goes on.
C16_OutOfBoundsEditIgnored ==
    [][OutOfBounds(E, op') => (E' = E /\ status' = status /\ ret' = ret
                                 /\ pc' = "refresh")]_vars

\* deleteChar was asked for with the cursor row past the last line.
C16_Witness ==
    IsKey(op, KEY_BACKSPACE) /\ RowOutside(E) /\ pc = "refresh"

\* C17: input reads and render cycles strictly alternate, the exit-trigger
\* pressed on a modified Document and the event read after it included: never
\* two getch returns without an editor_refresh_screen between them.
C17_ReadsAlternateWithRenders == reads <= 1

\* C17 (amended): a getch return follows a render, except the one getch of
\* the confirmation, which follows the Ctrl+X read on a modified Document
\* with no render between the two; no third read follows without a render.
C17_OneReadPerRenderButConfirm ==
    /\ [](reads <= 2)
    /\ [](reads = 2 => pc \in {"refresh", "exited"})
    /\ [][reads' > reads =>
            \/ reads = 0 /\ pc = "getch"
            \/ reads = 1 /\ pc = "confirm" /\ E.modified = 1
                 /\ IsKey(op, CtrlX) /\ status = MsgModified]_vars

\* An exit was cancelled: two events were read since the last render.
C17_Witness ==
    reads = 2 /\ pc = "refresh" /\ op.name = "confirm" /\ op.arg # CtrlX

\* C18: in every state reached from editor_init by keys dispatched through
\* editor_process_key, numlines >= 1, 0 <= row <= numlines - 1 and
\* 0 <= col <= len(lines[row]); no handler read a line outside the line
\* array or a byte past a line's end (no run faulted).
C18_KeysKeepCursorValid ==
    /\ E.numlines >= 1
    /\ Len(E.lines) = E.numlines
    /\ CursorValid(E)
    /\ pc # "crashed"

\* A backspace at column 0 merged an empty second line into a full first one.
C18_Witness ==
    /\ IsKey(op, KEY_BACKSPACE) /\ pc = "refresh"
    /\ E.lines = << <<ChA, ChA>> >> /\ E.row = 0 /\ E.col = 2

SavedOk(o, r) == IsKey(o, CtrlO) /\ o.env = "ok" /\ r = 0

\* C19: editor_init leaves modified set in every startup case (no file,
\* missing file, unreadable file, empty file, non-empty file); the flag is
\* clear in a state only if the step into it was a successful save, or the
\* flag was clear before and the step changed no line; and an exit-trigger
\* ends the session by itself only when the flag is clear, hence never before
\* the first successful save.
C19_ModifiedFromStart ==
    /\ [](op.name = "init" => (E.modified = 1 /\ pc = "refresh"))
    /\ [][E'.modified = 0 =>
            \/ pc = "getch" /\ SavedOk(op', ret')
            \/ E.modified = 0 /\ E'.lines = E.lines
                 /\ E'.numlines = E.numlines]_vars
    /\ [][(pc = "getch" /\ IsKey(op', CtrlX))
            => IF E.modified = 0 THEN pc' = "exited"
               ELSE pc' = "confirm" /\ status' = MsgModified]_vars

\* The first key of a session started without a file was the exit-trigger:
\* the session is still open, waiting for the confirmation.
C19_Witness ==
    /\ pc = "confirm" /\ IsKey(op, CtrlX)
    /\ E.filename = NULL /\ E.modified = 1 /\ E.lines = << <<>> >>

SameDocument(S, T) ==
    /\ T.lines = S.lines /\ T.numlines = S.numlines
    /\ T.filename = S.filename /\ T.modified = S.modified

SameView(S, T) ==
    /\ T.lines = S.lines /\ T.numlines = S.numlines
    /\ T.row = S.row /\ T.col = S.col
    /\ T.topline = S.topline /\ T.leftcol = S.leftcol

\* C20: editor_move_cursor in any direction, editor_scroll and the render
\* cycle leave every line, numlines, the filename and the modified flag as
\* they were; editor_save_file, whether its fopen succeeds or fails, leaves
\* the lines, numlines, the cursor and the viewport as they were.
C20_MovesRendersSavesFrame ==
    [][/\ (pc = "getch" /\ op'.name = "key" /\ op'.arg \in Arrows)
            => SameDocument(E, E')
       /\ pc = "refresh" => SameDocument(E, E')
       /\ (pc = "getch" /\ IsKey(op', CtrlO)) => SameView(E, E')]_vars

\* A save failed with the cursor off the origin in a scrolled window.
C20_Witness ==
    /\ IsKey(op, CtrlO) /\ op.env = "EACCES" /\ ret = -1
    /\ E.row > 0 /\ E.col > 0 /\ E.topline > 0 /\ E.leftcol > 0

====
